---- MODULE Spec2Model ----
(***************************************************************************)
(* Verification model of programs of the repository.  First the card      *)
(* programs of Chapter5_Pointers_And_Strings: excercise_12.cpp (shuffle,   *)
(* deal two five-card poker hands, classify, compare) and example_24.cpp   *)
(* (the same shuffleDeck).                                                 *)
(*                                                                         *)
(* Three specifications of the card program share the module:              *)
(*   EvalSpec     handleHand and its predicates, applied to every pair of  *)
(*                frequency tables of five cards;                          *)
(*   ShuffleSpec  shuffleDeck, one do-while iteration per step, every      *)
(*                random pick allowed, on a deck of ShufRows x ShufCols    *)
(*                slots (4 x 13 in the source);                            *)
(*   Spec         main() of excercise_12.cpp on the full 4 x 13 deck, the  *)
(*                random picks drawn from a bounded family of streams.     *)
(*                                                                         *)
(* Six more specifications model other programs of the repository:         *)
(*   SeatSpec     the seat-booking loop of Chapter4_Arrays/excercise02.cpp *)
(*   RatSpec      class Rational of Chapter6_Classes_Part_I/excercise_7.cpp*)
(*   SetSpec      class IntegerSet of                                      *)
(*                Chapter7_Classes_Part_II/excercise_9.cpp                 *)
(*   TurtleSpec   the turtle simulator of Chapter4_Arrays/excercise23.cpp  *)
(*   EarnSpec     checkEarningsAgainstCounter of                           *)
(*                Chapter4_Arrays/excercise01.cpp                          *)
(*   SearchSpec   linearSearch and linearSearchRecursive of                *)
(*                Chapter4_Arrays/recursion_excercise33.cpp                *)
(***************************************************************************)
EXTENDS Integers, Sequences, FiniteSets

VARIABLES
    \* ---- EvalSpec: one call of handleHand(rankCount, suitCount)
    rankCount,      \* const int * rankCount, indices 0..14 (2..14 used)
    suitCount,      \* const int * suitCount, indices 0..3
    winPriority,    \* the local winPriority of handleHand
    evalPc,         \* "call" before the call, "return" after it
    \* ---- ShuffleSpec: one call of shuffleDeck(deck)
    deck,           \* int deck[rows][cols]: 0 empty, else the order number
    i,              \* the loop variable of the placement loop
    shufflePc,      \* "clear", "place" (inside the do-while) or "done"
    \* ---- Spec: main() of excercise_12.cpp (deck is main's local deck)
    pc,             \* the statement of main that runs next
    handRankA, handSuiteA, handRankCountA, handSuiteCountA,
    handRankB, handSuiteB, handRankCountB, handSuiteCountB,
    priorityA, priorityB,
    winner,         \* the line printed under WINNER: "A", "B", "tie"
    \* ---- SeatSpec: the EX20 booking loop of Chapter4_Arrays/excercise02.cpp
    seats,          \* int seats[kPlaneSeats]: 0 free, 1 occupied
    wantSmoking,    \* the local wantSmoking of the iteration in progress
    passes,         \* the boarding passes printed so far: <<seatIndex, isSmoking>>
    seatPc,         \* "menu", "ask" (waiting for the y/n answer) or "done"
    \* ---- RatSpec: one Rational object of Chapter6_Classes_Part_I/excercise_7.cpp
    numerator, denominator,
    ratCall,        \* the member function that ran last
    ratMsg,         \* the message that call printed, "" if none
    \* ---- SetSpec: one IntegerSet object of Chapter7_Classes_Part_II/excercise_9.cpp
    set,            \* bool set[101]
    setCall,        \* the member function that ran last
    setK,           \* its argument k
    ok,             \* the value it returned
    \* ---- TurtleSpec: Chapter4_Arrays/excercise23.cpp
    floor_, turtleRow, turtleCol, turtlePen, turtleDir,
    cmdIdx,         \* the index i of main's loop over commands[]
    turtlePc,       \* "run" or "exit"
    \* ---- EarnSpec: checkEarningsAgainstCounter of Chapter4_Arrays/excercise01.cpp
    counter,        \* int counter[9]
    earnings,       \* the argument of the last call
    earnCalls,      \* the number of calls made
    \* ---- SearchSpec: Chapter4_Arrays/recursion_excercise33.cpp
    arr,            \* int arr[], indices 0 .. arrSize-1
    key,            \* the key searched for
    found,          \* the value linearSearch returned
    foundRecursive, \* the value linearSearchRecursive returned
    searchPc        \* "iterative", "recursive" (the call to make next) or "done"

evalVars == <<rankCount, suitCount, winPriority, evalPc>>

loopVars == <<i, shufflePc>>

handAVars == <<handRankA, handSuiteA, handRankCountA, handSuiteCountA>>

handBVars == <<handRankB, handSuiteB, handRankCountB, handSuiteCountB>>

mainVars == <<pc, handAVars, handBVars, priorityA, priorityB, winner>>

pokerVars == <<evalVars, deck, loopVars, mainVars>>

seatVars == <<seats, wantSmoking, passes, seatPc>>

ratVars == <<numerator, denominator, ratCall, ratMsg>>

setVars == <<set, setCall, setK, ok>>

turtleVars == <<floor_, turtleRow, turtleCol, turtlePen, turtleDir, cmdIdx, turtlePc>>

earnVars == <<counter, earnings, earnCalls>>

\* The variables of the programs other than the card program.
searchVars == <<arr, key, found, foundRecursive, searchPc>>

otherPrograms == <<seatVars, ratVars, setVars, turtleVars, earnVars, searchVars>>

vars == <<pokerVars, otherPrograms>>

(***************************************************************************)
(* Each specification runs one program; the variables of the others rest   *)
(* at these values.                                                        *)
(***************************************************************************)
SeatIdle ==
    /\ seats = <<>> /\ wantSmoking = FALSE /\ passes = <<>> /\ seatPc = "idle"

RatIdle ==
    /\ numerator = 0 /\ denominator = 0 /\ ratCall = "idle" /\ ratMsg = ""

SetIdle ==
    /\ set = <<>> /\ setCall = "idle" /\ setK = 0 /\ ok = FALSE

TurtleIdle ==
    /\ floor_ = <<>> /\ turtleRow = 0 /\ turtleCol = 0
    /\ turtlePen = 0 /\ turtleDir = 0 /\ cmdIdx = 0 /\ turtlePc = "idle"

EarnIdle ==
    /\ counter = <<>> /\ earnings = 0 /\ earnCalls = 0

SearchIdle ==
    /\ arr = <<>> /\ key = 0 /\ found = 0 /\ foundRecursive = 0 /\ searchPc = "idle"

OtherProgramsIdle ==
    /\ SeatIdle /\ RatIdle /\ SetIdle /\ TurtleIdle /\ EarnIdle /\ SearchIdle

(***************************************************************************)
(* Program constants.                                                      *)
(***************************************************************************)
DECKSIZE == 52
HANDSIZE == 5
NSUITS == 4
NFACES == 13
NRANKIDX == 15
ACE == 14

\* The deck of ShuffleSpec: ShufRows x ShufCols slots stand for the 4 x 13 of
\* the source, and the loop bound DECKSIZE for their product.
ShufRows == 2
ShufCols == 2

Suits == 0 .. (NSUITS - 1)
Faces == 0 .. (NFACES - 1)
RankIdx == 0 .. (NRANKIDX - 1)
Ranks == 2 .. ACE

(***************************************************************************)
(* countRanksWithFrequency: the loop  for (r = 2; r <= 14; r++).           *)
(***************************************************************************)
RECURSIVE CountFrom(_, _, _)
CountFrom(rc, N, r) ==
    IF r > ACE THEN 0
    ELSE (IF rc[r] = N THEN 1 ELSE 0) + CountFrom(rc, N, r + 1)

countRanksWithFrequency(rc, N) == CountFrom(rc, N, 2)

(***************************************************************************)
(* isFlush: some suit counter equals 5.                                    *)
(***************************************************************************)
isFlush(sc) == \E s \in Suits : sc[s] = 5

(***************************************************************************)
(* isStraight: five ranks of count 1, then the A-2-3-4-5 special case,     *)
(* then the run-length scan over r = 2..14.                                *)
(***************************************************************************)
RECURSIVE RunScan(_, _, _)
RunScan(rc, r, runLength) ==
    IF r > ACE THEN FALSE
    ELSE IF rc[r] = 1
         THEN (IF runLength + 1 = 5 THEN TRUE
               ELSE RunScan(rc, r + 1, runLength + 1))
         ELSE RunScan(rc, r + 1, 0)

\* Faulty variant: the A-2-3-4-5 special case left out.
isStraightNoWheel(rc) ==
    IF countRanksWithFrequency(rc, 1) # 5 THEN FALSE
    ELSE RunScan(rc, 2, 0)

isStraight(rc) ==
    IF countRanksWithFrequency(rc, 1) # 5 THEN FALSE
    ELSE IF rc[14] = 1 /\ rc[2] = 1 /\ rc[3] = 1 /\ rc[4] = 1 /\ rc[5] = 1
         THEN TRUE
         ELSE RunScan(rc, 2, 0)

(***************************************************************************)
(* Pair / trips / quads / full house.                                      *)
(***************************************************************************)
isOnePair(rc) == countRanksWithFrequency(rc, 2) = 1

\* Faulty variant: >= 1 for == 2.
isTwoPairAtLeastOne(rc) == countRanksWithFrequency(rc, 2) >= 1

isTwoPair(rc) == countRanksWithFrequency(rc, 2) = 2

isThreeOfAKind(rc) ==
    /\ countRanksWithFrequency(rc, 3) = 1
    /\ countRanksWithFrequency(rc, 2) = 0

isFourOfAKind(rc) == countRanksWithFrequency(rc, 4) = 1

\* Faulty variant: the pair test of isThreeOfAKind copied into isFullHouse.
isFullHouseNoPair(rc) ==
    /\ countRanksWithFrequency(rc, 3) = 1
    /\ countRanksWithFrequency(rc, 2) = 0

isFullHouse(rc) ==
    /\ countRanksWithFrequency(rc, 3) = 1
    /\ countRanksWithFrequency(rc, 2) = 1

(***************************************************************************)
(* handleHand: the if / else-if chain; the value returned.                 *)
(***************************************************************************)
\* Faulty variant: the straight-flush test placed behind the flush and the
\* straight tests, where it is never reached.
handleHandStraightFlushLast(rc, sc) ==
    IF isFourOfAKind(rc) THEN 2
    ELSE IF isFullHouse(rc) THEN 3
    ELSE IF isFlush(sc) THEN 4
    ELSE IF isStraight(rc) THEN 5
    ELSE IF isStraight(rc) /\ isFlush(sc) THEN 1
    ELSE IF isThreeOfAKind(rc) THEN 6
    ELSE IF isTwoPair(rc) THEN 7
    ELSE IF isOnePair(rc) THEN 8
    ELSE 9

\* Faulty variant: the flush test placed first.
handleHandFlushFirst(rc, sc) ==
    IF isFlush(sc) THEN 4
    ELSE IF isStraight(rc) /\ isFlush(sc) THEN 1
    ELSE IF isFourOfAKind(rc) THEN 2
    ELSE IF isFullHouse(rc) THEN 3
    ELSE IF isStraight(rc) THEN 5
    ELSE IF isThreeOfAKind(rc) THEN 6
    ELSE IF isTwoPair(rc) THEN 7
    ELSE IF isOnePair(rc) THEN 8
    ELSE 9

handleHand(rc, sc) ==
    IF isStraight(rc) /\ isFlush(sc) THEN 1
    ELSE IF isFourOfAKind(rc) THEN 2
    ELSE IF isFullHouse(rc) THEN 3
    ELSE IF isFlush(sc) THEN 4
    ELSE IF isStraight(rc) THEN 5
    ELSE IF isThreeOfAKind(rc) THEN 6
    ELSE IF isTwoPair(rc) THEN 7
    ELSE IF isOnePair(rc) THEN 8
    ELSE 9

(***************************************************************************)
(* EvalSpec: the inputs of handleHand are the frequency tables of every    *)
(* five ranks and every five suits; the tables are built the way           *)
(* dealFiveCardHandFromOrderRange builds them, one increment per card on   *)
(* zeroed arrays.                                                          *)
(***************************************************************************)
HandPos == 1 .. HANDSIZE

SortedRankHands ==
    { h \in [HandPos -> Ranks] : \A k \in 1 .. (HANDSIZE - 1) : h[k] <= h[k + 1] }

SortedSuitHands ==
    { h \in [HandPos -> Suits] : \A k \in 1 .. (HANDSIZE - 1) : h[k] <= h[k + 1] }

RankTableOf(h) == [r \in RankIdx |-> Cardinality({k \in HandPos : h[k] = r})]

SuitTableOf(h) == [s \in Suits |-> Cardinality({k \in HandPos : h[k] = s})]

EvalIdle ==
    /\ rankCount = <<>>
    /\ suitCount = <<>>
    /\ winPriority = 0
    /\ evalPc = "idle"

LoopIdle ==
    /\ i = 0
    /\ shufflePc = "idle"

\* The global hand arrays, zero-initialised.
ZeroHand == [k \in 0 .. (HANDSIZE - 1) |-> 0]
ZeroRankCount == [r \in RankIdx |-> 0]
ZeroSuitCount == [s \in Suits |-> 0]

MainIdle ==
    /\ pc = "idle"
    /\ handRankA = ZeroHand /\ handSuiteA = ZeroHand
    /\ handRankCountA = ZeroRankCount /\ handSuiteCountA = ZeroSuitCount
    /\ handRankB = ZeroHand /\ handSuiteB = ZeroHand
    /\ handRankCountB = ZeroRankCount /\ handSuiteCountB = ZeroSuitCount
    /\ priorityA = 0 /\ priorityB = 0
    /\ winner = "none"

EvalInit ==
    /\ deck = <<>> /\ LoopIdle /\ MainIdle /\ OtherProgramsIdle
    /\ rankCount \in { RankTableOf(h) : h \in SortedRankHands }
    /\ suitCount \in { SuitTableOf(h) : h \in SortedSuitHands }
    /\ winPriority = 9
    /\ evalPc = "call"

EvalHand ==
    /\ evalPc = "call"
    /\ winPriority' = handleHand(rankCount, suitCount)
    /\ evalPc' = "return"
    /\ UNCHANGED <<rankCount, suitCount, deck, loopVars, mainVars, otherPrograms>>

EvalNext == EvalHand

EvalSpec == EvalInit /\ [][EvalNext]_vars

(***************************************************************************)
(* The category ladder as the specification words it, stated on the        *)
(* frequency tables without the code's helpers.                            *)
(***************************************************************************)
RanksHeld(rc) == { r \in Ranks : rc[r] > 0 }

RanksWithCount(rc, n) == { r \in Ranks : rc[r] = n }

WheelRanks == {14, 2, 3, 4, 5}

FiveDistinctRanks(rc) ==
    /\ Cardinality(RanksHeld(rc)) = HANDSIZE
    /\ \A r \in Ranks : rc[r] <= 1

ConsecutiveRanks(rc) ==
    \E lo \in Ranks : lo + 4 <= ACE /\ RanksHeld(rc) = lo .. (lo + 4)

StraightRanks(rc) ==
    /\ FiveDistinctRanks(rc)
    /\ (ConsecutiveRanks(rc) \/ RanksHeld(rc) = WheelRanks)

OneSuitOnly(sc) == \E s \in Suits : sc[s] = HANDSIZE

LadderCategory(rc, sc) ==
    CASE StraightRanks(rc) /\ OneSuitOnly(sc) -> 1
      [] OTHER ->
    CASE RanksWithCount(rc, 4) # {} -> 2
      [] OTHER ->
    CASE RanksWithCount(rc, 3) # {} /\ RanksWithCount(rc, 2) # {} -> 3
      [] OTHER ->
    CASE OneSuitOnly(sc) -> 4
      [] OTHER ->
    CASE StraightRanks(rc) -> 5
      [] OTHER ->
    CASE RanksWithCount(rc, 3) # {} /\ RanksWithCount(rc, 2) = {} -> 6
      [] OTHER ->
    CASE Cardinality(RanksWithCount(rc, 2)) = 2 -> 7
      [] OTHER ->
    CASE Cardinality(RanksWithCount(rc, 2)) = 1 -> 8
      [] OTHER -> 9

TableOfRanks(a, b, c, d, e) ==
    RankTableOf([k \in HandPos |-> <<a, b, c, d, e>>[k]])

AllInSuit(s) == [t \in Suits |-> IF t = s THEN HANDSIZE ELSE 0]

WheelTable == TableOfRanks(2, 3, 4, 5, 14)
GappedTable == TableOfRanks(2, 3, 4, 5, 7)
WrapAroundTable == TableOfRanks(2, 3, 12, 13, 14)
RoyalTable == TableOfRanks(10, 11, 12, 13, 14)
OnePairTable == TableOfRanks(2, 2, 5, 9, 13)
FullHouseTable == TableOfRanks(4, 4, 4, 9, 9)
FourTwosTable == TableOfRanks(2, 2, 2, 2, 5)

\* C2: handleHand returns a value in 1..9, the number of the first rung of
\* the category ladder that the two frequency tables satisfy.
C2_LadderFirstMatch ==
    evalPc = "return" =>
        /\ winPriority \in 1 .. 9
        /\ winPriority = LadderCategory(rankCount, suitCount)

\* C2 witness: a one-pair hand of mixed suits has been classified 8, after
\* the seven stronger rungs were all passed over.
C2_Witness ==
    /\ evalPc = "return"
    /\ rankCount = OnePairTable
    /\ ~OneSuitOnly(suitCount)
    /\ winPriority = 8

\* C3: isStraight is true exactly for five distinct ranks that are five
\* consecutive ranks within 2..14 or the wheel {14,2,3,4,5}; the wheel is a
\* straight, {2,3,4,5,7} and the wrap-around {12,13,14,2,3} are not.
C3_StraightIff ==
    evalPc = "return" =>
        /\ isStraight(rankCount) <=> StraightRanks(rankCount)
        /\ rankCount = WheelTable => isStraight(rankCount)
        /\ rankCount = GappedTable => ~isStraight(rankCount)
        /\ rankCount = WrapAroundTable => ~isStraight(rankCount)

\* C3 witness: the wheel in mixed suits has been classified as a straight.
C3_Witness ==
    /\ evalPc = "return"
    /\ rankCount = WheelTable
    /\ isStraight(rankCount)
    /\ winPriority = 5

RankTables == { RankTableOf(h) : h \in SortedRankHands }

SuitTables == { SuitTableOf(h) : h \in SortedSuitHands }

QuadTables == { rc \in RankTables : RanksWithCount(rc, 4) # {} }

\* C6: a hand of straight ranks in a single suit is classified 1, below the
\* value returned for every four-of-a-kind hand; {10,11,12,13,14} of suit 3
\* gives 1.
C6_StraightFlushIsOne ==
    (evalPc = "return" /\ StraightRanks(rankCount) /\ OneSuitOnly(suitCount)) =>
        /\ winPriority = 1
        /\ \A q \in QuadTables : \A sc \in SuitTables :
               winPriority < handleHand(q, sc)

\* C6 witness: {10,11,12,13,14} all of suit index 3, classified 1.
C6_Witness ==
    /\ evalPc = "return"
    /\ rankCount = RoyalTable
    /\ suitCount = AllInSuit(3)
    /\ winPriority = 1

\* C7: one rank of count 3 with another of count 2 is classified 3, never 6
\* or 8, whatever the suit table.
C7_FullHouseIsThree ==
    (/\ evalPc = "return"
     /\ RanksWithCount(rankCount, 3) # {}
     /\ RanksWithCount(rankCount, 2) # {}) =>
        (winPriority = 3 /\ winPriority # 6 /\ winPriority # 8)

\* C7 witness: a full house whose suit table has one suit at count 5 has
\* been classified 3.
C7_Witness ==
    /\ evalPc = "return"
    /\ rankCount = FullHouseTable
    /\ OneSuitOnly(suitCount)
    /\ winPriority = 3

\* C8: a rank of count 4 is classified 2 for every suit table that sums to
\* 5, a table with one suit at count 5 included.
C8_QuadsIsTwo ==
    (evalPc = "return" /\ RanksWithCount(rankCount, 4) # {}) => winPriority = 2

\* C8 witness: {2,2,2,2,5} with all five suit counts on one suit, classified 2.
C8_Witness ==
    /\ evalPc = "return"
    /\ rankCount = FourTwosTable
    /\ suitCount = AllInSuit(0)
    /\ winPriority = 2

(***************************************************************************)
(* shuffleDeck.  The clearing loops, the do-while condition, the store     *)
(* and the increment of the placement loop.                                *)
(***************************************************************************)
ClearedDeck(rows, cols) == [r \in 0 .. (rows - 1) |-> [c \in 0 .. (cols - 1) |-> 0]]

\* Faulty variant: the do-while never repeats.
SlotTakenNever(d, row, col) == FALSE

SlotTaken(d, row, col) == d[row][col] # 0

StoreOrder(d, row, col, n) == [d EXCEPT ![row][col] = n]

\* Faulty variant: the loop counter is not incremented.
NextOrderStuck(n) == n

NextOrder(n) == n + 1

(***************************************************************************)
(* ShuffleSpec: shuffleDeck on a deck of ShufRows x ShufCols slots whose   *)
(* content at the call is arbitrary (main's  int deck[4][13]  is not       *)
(* initialised).  rand() % rows and rand() % cols are any row and column.  *)
(***************************************************************************)
ShufRowIdx == 0 .. (ShufRows - 1)
ShufColIdx == 0 .. (ShufCols - 1)
ShufDeckSize == ShufRows * ShufCols
GarbageValues == {0 - 1, 0, 1}

ShuffleInit ==
    /\ EvalIdle /\ MainIdle /\ OtherProgramsIdle
    /\ deck \in [ShufRowIdx -> [ShufColIdx -> GarbageValues]]
    /\ i = 0
    /\ shufflePc = "clear"

ClearDeck ==
    /\ shufflePc = "clear"
    /\ deck' = ClearedDeck(ShufRows, ShufCols)
    /\ i' = 1
    /\ shufflePc' = IF 1 <= ShufDeckSize THEN "place" ELSE "done"
    /\ UNCHANGED <<evalVars, mainVars, otherPrograms>>

PickSlot(row, col) ==
    /\ shufflePc = "place"
    /\ IF SlotTaken(deck, row, col)
       THEN UNCHANGED <<deck, i, shufflePc>>
       ELSE /\ deck' = StoreOrder(deck, row, col, i)
            /\ i' = NextOrder(i)
            /\ shufflePc' = IF NextOrder(i) <= ShufDeckSize THEN "place" ELSE "done"
    /\ UNCHANGED <<evalVars, mainVars, otherPrograms>>

ShuffleNext ==
    \/ ClearDeck
    \/ \E row \in ShufRowIdx, col \in ShufColIdx : PickSlot(row, col)

\* A fair random source: a pair (row, col) that stays free is picked.
FairRandomSource ==
    \A row \in ShufRowIdx, col \in ShufColIdx : WF_vars(PickSlot(row, col))

ShuffleSpec ==
    /\ ShuffleInit
    /\ [][ShuffleNext]_vars
    /\ WF_vars(ClearDeck)
    /\ FairRandomSource

SlotsHolding(d, v) ==
    { s \in ShufRowIdx \X ShufColIdx : d[s[1]][s[2]] = v }

\* C1: when shuffleDeck returns, every slot holds a value of 1..DECKSIZE and
\* every value of 1..DECKSIZE is held by exactly one slot, whatever picks
\* were drawn and whatever the deck held at the call.
C1_ShuffleBijection ==
    shufflePc = "done" =>
        /\ \A row \in ShufRowIdx, col \in ShufColIdx :
               deck[row][col] \in 1 .. ShufDeckSize
        /\ \A v \in 1 .. ShufDeckSize : Cardinality(SlotsHolding(deck, v)) = 1

\* C1 witness: shuffleDeck has returned with the first order number in the
\* last slot and the last order number in the first slot.
C1_Witness ==
    /\ shufflePc = "done"
    /\ deck[0][0] = ShufDeckSize
    /\ deck[ShufRows - 1][ShufCols - 1] = 1

\* C10: under a fair random source the placement loop places every order
\* number and shuffleDeck returns.
C10_ShuffleTerminates == <>(shufflePc = "done")

\* C10 witness: the loop has ended, its counter one past the last order
\* number, no slot empty.
C10_Witness ==
    /\ shufflePc = "done"
    /\ i = ShufDeckSize + 1
    /\ \A row \in ShufRowIdx, col \in ShufColIdx : deck[row][col] # 0

(***************************************************************************)
(* main() of excercise_12.cpp on the 4 x 13 deck.                          *)
(*                                                                         *)
(* shuffleDeck as a whole: the deck is cleared, then the picks of a stream *)
(* of (row, col) pairs are consumed one do-while iteration at a time until *)
(* the loop counter passes DECKSIZE.                                       *)
(***************************************************************************)
\* The do-while iterations that consume the picks k .. last of the stream,
\* from deck d and loop counter n; k in the result is the next pick.
RECURSIVE PlaceLoop(_, _, _, _, _)
PlaceLoop(d, n, stream, k, last) ==
    IF n > DECKSIZE \/ k > last THEN [deck |-> d, i |-> n, k |-> k]
    ELSE LET row == stream[k][1]
             col == stream[k][2]
         IN  IF SlotTaken(d, row, col)
             THEN PlaceLoop(d, n, stream, k + 1, last)
             ELSE PlaceLoop(StoreOrder(d, row, col, n), NextOrder(n), stream, k + 1, last)

\* The whole loop, evaluated NFACES picks at a time (the same iterations in
\* the same order; the grouping only keeps the evaluation shallow).
RECURSIVE PlaceAll(_, _)
PlaceAll(st, stream) ==
    IF st.i > DECKSIZE \/ st.k > Len(stream) THEN [deck |-> st.deck, i |-> st.i]
    ELSE LET last == IF st.k + NFACES - 1 > Len(stream) THEN Len(stream)
                     ELSE st.k + NFACES - 1
         IN  PlaceAll(PlaceLoop(st.deck, st.i, stream, st.k, last), stream)

shuffleDeck(d, stream) ==
    PlaceAll([deck |-> ClearedDeck(NSUITS, NFACES), i |-> 1, k |-> 1], stream)

(***************************************************************************)
(* The streams of picks main is run on: every slot is drawn twice in a row *)
(* (the second draw finds it taken), the slots visited from a start slot   *)
(* in steps of a stride coprime to 52, the slots numbered either suit by   *)
(* suit or face by face.                                                   *)
(***************************************************************************)
MaxStride == 27

Coprime(a, b) == ~ \E f \in 2 .. a : a % f = 0 /\ b % f = 0

Strides == { st \in 1 .. MaxStride : Coprime(st, DECKSIZE) }

SlotNumbered(layout, n) ==
    IF layout = "suitMajor" THEN <<n \div NFACES, n % NFACES>>
    ELSE <<n % NSUITS, n \div NSUITS>>

PickStream(layout, start, stride) ==
    [k \in 1 .. (2 * DECKSIZE) |->
        SlotNumbered(layout, (start + stride * ((k - 1) \div 2)) % DECKSIZE)]

PickStreams ==
    { PickStream(layout, start, stride) :
        layout \in {"suitMajor", "faceMajor"},
        start \in 0 .. (DECKSIZE - 1),
        stride \in Strides }

(***************************************************************************)
(* rankValueFromFaceIndex, clearCountArrays.                               *)
(***************************************************************************)
\* Faulty variant: the Ace is not lifted to 14.
rankValueFromFaceIndexAceLow(faceIdx) == faceIdx + 1

rankValueFromFaceIndex(faceIdx) == IF faceIdx = 0 THEN 14 ELSE faceIdx + 1

clearCountArrays == [rankCount |-> [r \in RankIdx |-> 0],
                     suitCount |-> [s \in Suits |-> 0]]

(***************************************************************************)
(* dealFiveCardHandFromOrderRange.  h is the record of the four output     *)
(* arrays; the scan visits the slots p = 0..3, q = 0..12 in the order of   *)
(* the nested loops, slot (p, q) being the n-th with n = 13 p + q.         *)
(***************************************************************************)
\* Faulty variant: the scan looks for the order one too high.
OrderMatchesOffByOne(d, p, q, orderWanted) == d[p][q] = orderWanted + 1

OrderMatches(d, p, q, orderWanted) == d[p][q] = orderWanted

\* Faulty variant: the suit counter is not incremented.
StoreCardNoSuitCount(h, dealIdx, p, q) ==
    LET rank == rankValueFromFaceIndex(q)
    IN  [h EXCEPT !.suite[dealIdx] = p,
                  !.rank[dealIdx] = rank,
                  !.rankCount[rank] = @ + 1]

StoreCard(h, dealIdx, p, q) ==
    LET rank == rankValueFromFaceIndex(q)
    IN  [h EXCEPT !.suite[dealIdx] = p,
                  !.rank[dealIdx] = rank,
                  !.rankCount[rank] = @ + 1,
                  !.suitCount[p] = @ + 1]

\* The scan from slot n on: the iterations whose  if  is false change
\* nothing, so the scan goes on from the first slot at or after n that
\* matches, stores that card, and continues behind it.
RECURSIVE ScanDeck(_, _, _, _, _)
ScanDeck(d, orderWanted, dealIdx, n, h) ==
    LET hits == { m \in n .. (NSUITS * NFACES - 1) :
                    OrderMatches(d, m \div NFACES, m % NFACES, orderWanted) }
    IN  IF hits = {} THEN h
        ELSE LET m == CHOOSE x \in hits : \A y \in hits : x <= y
             IN  ScanDeck(d, orderWanted, dealIdx, m + 1,
                          StoreCard(h, dealIdx, m \div NFACES, m % NFACES))

RECURSIVE DealLoop(_, _, _, _)
DealLoop(d, startOrder, dealIdx, h) ==
    IF dealIdx >= HANDSIZE THEN h
    ELSE DealLoop(d, startOrder, dealIdx + 1,
                  ScanDeck(d, startOrder + dealIdx, dealIdx, 0, h))

dealFiveCardHandFromOrderRange(d, startOrder, h) == DealLoop(d, startOrder, 0, h)

(***************************************************************************)
(* The comparison at the end of main.                                      *)
(***************************************************************************)
\* Faulty variant: <= for < in the first comparison.
ReportWinnerTiesToA(pA, pB) ==
    IF pA <= pB THEN "A" ELSE IF pB < pA THEN "B" ELSE "tie"

ReportWinner(pA, pB) ==
    IF pA < pB THEN "A" ELSE IF pB < pA THEN "B" ELSE "tie"

(***************************************************************************)
(* Spec: the statements of main, one action per call.                      *)
(***************************************************************************)
UninitialisedDecks == { [p \in Suits |-> [q \in Faces |-> v]] : v \in GarbageValues }

Init ==
    /\ EvalIdle /\ LoopIdle /\ OtherProgramsIdle
    /\ deck \in UninitialisedDecks
    /\ pc = "shuffle"
    /\ handRankA = ZeroHand /\ handSuiteA = ZeroHand
    /\ handRankCountA = ZeroRankCount /\ handSuiteCountA = ZeroSuitCount
    /\ handRankB = ZeroHand /\ handSuiteB = ZeroHand
    /\ handRankCountB = ZeroRankCount /\ handSuiteCountB = ZeroSuitCount
    /\ priorityA = 0 /\ priorityB = 0
    /\ winner = "none"

Shuffle ==
    /\ pc = "shuffle"
    /\ \E stream \in PickStreams :
          LET r == shuffleDeck(deck, stream)
          IN  /\ r.i > DECKSIZE
              /\ deck' = r.deck
    /\ pc' = "clearA"
    /\ UNCHANGED <<otherPrograms, evalVars, loopVars, handAVars, handBVars, priorityA, priorityB, winner>>

ClearA ==
    /\ pc = "clearA"
    /\ handRankCountA' = clearCountArrays.rankCount
    /\ handSuiteCountA' = clearCountArrays.suitCount
    /\ pc' = "dealA"
    /\ UNCHANGED <<otherPrograms, evalVars, deck, loopVars, handRankA, handSuiteA, handBVars,
                   priorityA, priorityB, winner>>

\* Faulty variant: the deal takes the cards out of the deck, clearing the
\* slots of orders 1..5.
DealAConsumesDeck ==
    /\ pc = "dealA"
    /\ LET h == dealFiveCardHandFromOrderRange(deck, 1,
                    [suite |-> handSuiteA, rank |-> handRankA,
                     rankCount |-> handRankCountA, suitCount |-> handSuiteCountA])
       IN  /\ handSuiteA' = h.suite
           /\ handRankA' = h.rank
           /\ handRankCountA' = h.rankCount
           /\ handSuiteCountA' = h.suitCount
    /\ deck' = [p \in Suits |-> [q \in Faces |->
                   IF deck[p][q] \in 1 .. HANDSIZE THEN 0 ELSE deck[p][q]]]
    /\ pc' = "evalA"
    /\ UNCHANGED <<otherPrograms, evalVars, loopVars, handBVars, priorityA, priorityB, winner>>

DealA ==
    /\ pc = "dealA"
    /\ LET h == dealFiveCardHandFromOrderRange(deck, 1,
                    [suite |-> handSuiteA, rank |-> handRankA,
                     rankCount |-> handRankCountA, suitCount |-> handSuiteCountA])
       IN  /\ handSuiteA' = h.suite
           /\ handRankA' = h.rank
           /\ handRankCountA' = h.rankCount
           /\ handSuiteCountA' = h.suitCount
    /\ pc' = "evalA"
    /\ UNCHANGED <<otherPrograms, evalVars, deck, loopVars, handBVars, priorityA, priorityB, winner>>

EvalA ==
    /\ pc = "evalA"
    /\ priorityA' = handleHand(handRankCountA, handSuiteCountA)
    /\ pc' = "clearB"
    /\ UNCHANGED <<otherPrograms, evalVars, deck, loopVars, handAVars, handBVars, priorityB, winner>>

ClearB ==
    /\ pc = "clearB"
    /\ handRankCountB' = clearCountArrays.rankCount
    /\ handSuiteCountB' = clearCountArrays.suitCount
    /\ pc' = "dealB"
    /\ UNCHANGED <<otherPrograms, evalVars, deck, loopVars, handRankB, handSuiteB, handAVars,
                   priorityA, priorityB, winner>>

DealB ==
    /\ pc = "dealB"
    /\ LET h == dealFiveCardHandFromOrderRange(deck, 6,
                    [suite |-> handSuiteB, rank |-> handRankB,
                     rankCount |-> handRankCountB, suitCount |-> handSuiteCountB])
       IN  /\ handSuiteB' = h.suite
           /\ handRankB' = h.rank
           /\ handRankCountB' = h.rankCount
           /\ handSuiteCountB' = h.suitCount
    /\ pc' = "evalB"
    /\ UNCHANGED <<otherPrograms, evalVars, deck, loopVars, handAVars, priorityA, priorityB, winner>>

EvalB ==
    /\ pc = "evalB"
    /\ priorityB' = handleHand(handRankCountB, handSuiteCountB)
    /\ pc' = "compare"
    /\ UNCHANGED <<otherPrograms, evalVars, deck, loopVars, handAVars, handBVars, priorityA, winner>>

Compare ==
    /\ pc = "compare"
    /\ winner' = ReportWinner(priorityA, priorityB)
    /\ pc' = "done"
    /\ UNCHANGED <<otherPrograms, evalVars, deck, loopVars, handAVars, handBVars, priorityA, priorityB>>

Next ==
    \/ Shuffle
    \/ ClearA
    \/ DealA
    \/ EvalA
    \/ ClearB
    \/ DealB
    \/ EvalB
    \/ Compare

Spec == Init /\ [][Next]_vars

(***************************************************************************)
(* Claims about main.                                                      *)
(***************************************************************************)
DeckSlots == Suits \X Faces

SlotsMatching(d, orderWanted) ==
    { sl \in DeckSlots : OrderMatches(d, sl[1], sl[2], orderWanted) }

SlotOfOrder(d, v) == CHOOSE sl \in DeckSlots : d[sl[1]][sl[2]] = v

IsShuffled(d) ==
    \A v \in 1 .. DECKSIZE : Cardinality({ sl \in DeckSlots : d[sl[1]][sl[2]] = v }) = 1

\* The hand h lists, position by position, the cards of orders S .. S+4 of
\* deck d, each position written by exactly one slot of the scan.
HandIsOrderRange(d, S, suite, rank) ==
    \A k \in 0 .. (HANDSIZE - 1) :
        /\ Cardinality(SlotsMatching(d, S + k)) = 1
        /\ suite[k] = SlotOfOrder(d, S + k)[1]
        /\ rank[k] = rankValueFromFaceIndex(SlotOfOrder(d, S + k)[2])

EmptyHand == [suite |-> ZeroHand, rank |-> ZeroHand,
              rankCount |-> ZeroRankCount, suitCount |-> ZeroSuitCount]

\* C4: on a shuffled deck, for every start order S with S+4 <= 52, position
\* k of the dealt hand holds the suit and the derived rank of the one slot
\* of order S+k; so do hand A (S = 1) and hand B (S = 6) of main.
C4_DealWritesOrderRange ==
    /\ pc \in {"evalA", "clearB", "dealB", "evalB", "compare", "done"} =>
           HandIsOrderRange(deck, 1, handSuiteA, handRankA)
    /\ pc \in {"evalB", "compare", "done"} =>
           HandIsOrderRange(deck, 6, handSuiteB, handRankB)
    /\ pc = "clearA" =>
           /\ IsShuffled(deck)
           /\ \A S \in 1 .. (DECKSIZE - HANDSIZE + 1) :
                  LET h == dealFiveCardHandFromOrderRange(deck, S, EmptyHand)
                  IN  HandIsOrderRange(deck, S, h.suite, h.rank)

\* C4 witness: hand B has been dealt and its first card is the Ace of suit
\* 3, the slot deck[3][0] holding order 6.
C4_Witness ==
    /\ pc = "evalB"
    /\ deck[3][0] = 6
    /\ handSuiteB[0] = 3
    /\ handRankB[0] = 14
    /\ handRankB[1] # 14

RECURSIVE SumOver(_, _, _)
SumOver(f, lo, hi) == IF lo > hi THEN 0 ELSE f[lo] + SumOver(f, lo + 1, hi)

\* C5: when hand A, and when hand B, is about to be classified, its rank
\* counts over 2..14 sum to 5 and its suit counts over 0..3 sum to 5.
C5_CountsSumToFive ==
    /\ pc = "evalA" =>
           /\ SumOver(handRankCountA, 2, ACE) = HANDSIZE
           /\ SumOver(handSuiteCountA, 0, NSUITS - 1) = HANDSIZE
    /\ pc = "evalB" =>
           /\ SumOver(handRankCountB, 2, ACE) = HANDSIZE
           /\ SumOver(handSuiteCountB, 0, NSUITS - 1) = HANDSIZE

\* C5 witness: hand B is about to be classified and holds a pair of ranks
\* and two cards of one suit, hand A having been classified before it.
C5_Witness ==
    /\ pc = "evalB"
    /\ priorityA \in 1 .. 9
    /\ \E r \in Ranks : handRankCountB[r] = 2
    /\ \E s \in Suits : handSuiteCountB[s] = 2
    /\ SumOver(handRankCountB, 2, ACE) = HANDSIZE

\* C9: the winner line is decided by the two categories alone: A exactly
\* when priorityA < priorityB, B exactly when priorityB < priorityA, a tie
\* exactly when they are equal; one of the three is reported.
C9_WinnerByCategoryOnly ==
    pc = "done" =>
        /\ winner \in {"A", "B", "tie"}
        /\ winner = "A" <=> priorityA < priorityB
        /\ winner = "B" <=> priorityB < priorityA
        /\ winner = "tie" <=> priorityA = priorityB

\* C9 witness: two one-pair hands of different ranks are reported as a tie.
C9_Witness ==
    /\ pc = "done"
    /\ priorityA = 8 /\ priorityB = 8
    /\ handRankCountA # handRankCountB
    /\ winner = "tie"

\* C11: once shuffleDeck has returned, no step of main (clearing, dealing
\* either hand, classifying either hand, comparing) changes any slot of the
\* deck, so hand B is dealt from the deck hand A was dealt from.
C11_DeckUnchangedAfterShuffle == [][pc # "shuffle" => deck' = deck]_vars

\* C11 witness: both hands have been dealt and classified, and the deck
\* still holds every order once, with hand A and hand B at the slots of
\* orders 1..5 and 6..10.
C11_Witness ==
    /\ pc = "compare"
    /\ IsShuffled(deck)
    /\ HandIsOrderRange(deck, 1, handSuiteA, handRankA)
    /\ HandIsOrderRange(deck, 6, handSuiteB, handRankB)
    /\ priorityB \in 1 .. 9

HandPositions == 0 .. (HANDSIZE - 1)

\* C12: face 0 has rank 14 and face f in 1..12 has rank f+1; ranks lie in
\* 2..14 and differ for different faces.  So every rank a deal stored (the
\* index it incremented in the rank table) lies in 2..14, every suit it
\* stored lies in 0..3, and the unused rank indices 0 and 1 stay at zero.
C12_RankOfFace ==
    /\ rankValueFromFaceIndex(0) = 14
    /\ \A f \in 1 .. (NFACES - 1) : rankValueFromFaceIndex(f) = f + 1
    /\ \A f \in Faces : rankValueFromFaceIndex(f) \in 2 .. 14
    /\ \A f, g \in Faces :
           f # g => rankValueFromFaceIndex(f) # rankValueFromFaceIndex(g)
    /\ pc \in {"evalA", "clearB", "dealB", "evalB", "compare", "done"} =>
           /\ \A k \in HandPositions : handRankA[k] \in 2 .. 14
           /\ \A k \in HandPositions : handSuiteA[k] \in 0 .. 3
    /\ pc = "evalA" =>
           /\ handRankCountA[0] = 0 /\ handRankCountA[1] = 0
           /\ \A k \in HandPositions : handRankCountA[handRankA[k]] >= 1
    /\ pc \in {"evalB", "compare", "done"} =>
           /\ \A k \in HandPositions : handRankB[k] \in 2 .. 14
           /\ \A k \in HandPositions : handSuiteB[k] \in 0 .. 3
           /\ handRankCountB[0] = 0 /\ handRankCountB[1] = 0
           /\ \A k \in HandPositions : handRankCountB[handRankB[k]] >= 1

\* C12 witness: hand A has been dealt and holds an Ace (face 0, rank 14)
\* and a Two (face 1, rank 2).
C12_Witness ==
    /\ pc = "evalA"
    /\ handRankCountA[14] >= 1
    /\ handRankCountA[2] >= 1
    /\ \E k \in HandPositions : deck[handSuiteA[k]][0] = k + 1

(***************************************************************************)
(* SeatSpec: the booking loop of Chapter4_Arrays/excercise02.cpp, one      *)
(* action per path through an iteration, split where the loop reads the    *)
(* y/n answer.                                                             *)
(***************************************************************************)
kPlaneSeats == 10
kSmokingStartIdx == 0
kSmokingEndIdx == 4
kNonSmokeStartIdx == 5
kNonSmokeEndIdx == 9
kMenuSmoking == 1
kMenuNonSmoking == 2
kMenuExit == 0 - 2

SeatIdx == 0 .. (kPlaneSeats - 1)

\* The integers typed at the menu: the three menu codes and two others.
MenuChoices == {kMenuSmoking, kMenuNonSmoking, kMenuExit, 0, 3}

\* The characters typed at the y/n question.
Answers == {"y", "Y", "n", "N", "x"}

\* Faulty variant: the first seat of the range, whether free or not.
findFirstFreeSeatIgnoresOccupancy(s, startIdx, endIdx) == startIdx

RECURSIVE findFirstFreeSeat(_, _, _)
findFirstFreeSeat(s, startIdx, endIdx) ==
    IF startIdx > endIdx THEN 0 - 1
    ELSE IF s[startIdx] = 0 THEN startIdx
    ELSE findFirstFreeSeat(s, startIdx + 1, endIdx)

\* printBoardingPass: the pass is recorded by what it shows.
printBoardingPass(seatIndex, isSmoking) == Append(passes, <<seatIndex, isSmoking>>)

firstStart(smoking) == IF smoking THEN kSmokingStartIdx ELSE kNonSmokeStartIdx

firstEnd(smoking) == IF smoking THEN kSmokingEndIdx ELSE kNonSmokeEndIdx

otherStart(smoking) == IF smoking THEN kNonSmokeStartIdx ELSE kSmokingStartIdx

otherEnd(smoking) == IF smoking THEN kNonSmokeEndIdx ELSE kSmokingEndIdx

PokerIdle == EvalIdle /\ deck = <<>> /\ LoopIdle /\ MainIdle

notSeat == <<pokerVars, ratVars, setVars, turtleVars, earnVars, searchVars>>

SeatInit ==
    /\ PokerIdle /\ RatIdle /\ SetIdle /\ TurtleIdle /\ EarnIdle /\ SearchIdle
    /\ seats = [k \in SeatIdx |-> 0]
    /\ wantSmoking = FALSE
    /\ passes = <<>>
    /\ seatPc = "menu"

\* cin >> choice fails: main returns 1.
InputFails ==
    /\ seatPc = "menu"
    /\ seatPc' = "failed"
    /\ UNCHANGED <<seats, wantSmoking, passes, notSeat>>

ExitChosen ==
    /\ seatPc = "menu"
    /\ \E choice \in MenuChoices : choice = kMenuExit
    /\ seatPc' = "done"
    /\ UNCHANGED <<seats, wantSmoking, passes, notSeat>>

InvalidSelection ==
    /\ seatPc = "menu"
    /\ \E choice \in MenuChoices :
          /\ choice # kMenuExit
          /\ choice # kMenuSmoking /\ choice # kMenuNonSmoking
    /\ wantSmoking' = FALSE
    /\ UNCHANGED <<seats, passes, seatPc, notSeat>>

\* A seat of the chosen section is free: it is taken and its pass printed.
BookChosenSection ==
    /\ seatPc = "menu"
    /\ \E choice \in {kMenuSmoking, kMenuNonSmoking} :
          LET smoking == (choice = kMenuSmoking)
              seatIndex == findFirstFreeSeat(seats, firstStart(smoking), firstEnd(smoking))
          IN  /\ seatIndex # 0 - 1
              /\ wantSmoking' = smoking
              /\ seats' = [seats EXCEPT ![seatIndex] = 1]
              /\ passes' = printBoardingPass(seatIndex, smoking)
    /\ UNCHANGED <<seatPc, notSeat>>

\* The chosen section is full: the loop asks for the other section.
SectionFull ==
    /\ seatPc = "menu"
    /\ \E choice \in {kMenuSmoking, kMenuNonSmoking} :
          LET smoking == (choice = kMenuSmoking)
              seatIndex == findFirstFreeSeat(seats, firstStart(smoking), firstEnd(smoking))
          IN  /\ seatIndex = 0 - 1
              /\ wantSmoking' = smoking
    /\ seatPc' = "ask"
    /\ UNCHANGED <<seats, passes, notSeat>>

Declined ==
    /\ seatPc = "ask"
    /\ \E answer \in Answers : answer # "y" /\ answer # "Y"
    /\ seatPc' = "done"
    /\ UNCHANGED <<seats, wantSmoking, passes, notSeat>>

BookOtherSection ==
    /\ seatPc = "ask"
    /\ \E answer \in Answers : answer = "y" \/ answer = "Y"
    /\ LET seatIndex == findFirstFreeSeat(seats, otherStart(wantSmoking), otherEnd(wantSmoking))
       IN  /\ seatIndex # 0 - 1
           /\ seats' = [seats EXCEPT ![seatIndex] = 1]
           /\ passes' = printBoardingPass(seatIndex, ~wantSmoking)
    /\ seatPc' = "menu"
    /\ UNCHANGED <<wantSmoking, notSeat>>

BothSectionsFull ==
    /\ seatPc = "ask"
    /\ \E answer \in Answers : answer = "y" \/ answer = "Y"
    /\ findFirstFreeSeat(seats, otherStart(wantSmoking), otherEnd(wantSmoking)) = 0 - 1
    /\ seatPc' = "done"
    /\ UNCHANGED <<seats, wantSmoking, passes, notSeat>>

SeatNext ==
    \/ InputFails
    \/ ExitChosen
    \/ InvalidSelection
    \/ BookChosenSection
    \/ SectionFull
    \/ Declined
    \/ BookOtherSection
    \/ BothSectionsFull

SeatSpec == SeatInit /\ [][SeatNext]_vars

SeatsOnPasses == { passes[n][1] : n \in 1 .. Len(passes) }

\* C13: no step of the booking loop frees an occupied seat; a seat becomes
\* occupied exactly when a boarding pass is printed, the pass names that
\* seat, the seat was free immediately before, and no other seat changes;
\* so no two passes ever name the same seat.
C13_NoSeatAssignedTwice ==
    [][/\ \A k \in SeatIdx : seats[k] = 1 => seats'[k] = 1
       /\ passes' # passes =>
             /\ Len(passes') = Len(passes) + 1
             /\ SubSeq(passes', 1, Len(passes)) = passes
             /\ LET k == passes'[Len(passes')][1]
                IN  /\ k \in SeatIdx
                    /\ seats[k] = 0 /\ seats'[k] = 1
                    /\ k \notin SeatsOnPasses
                    /\ \A j \in SeatIdx \ {k} : seats'[j] = seats[j]
       /\ seats' # seats => passes' # passes
       /\ Cardinality(SeatsOnPasses) = Len(passes)
       /\ SeatsOnPasses = { k \in SeatIdx : seats[k] = 1 }]_vars

\* C13 witness: the smoking section filled up, the customer accepted a seat
\* in the other section, and the pass for seat index 5 was printed last.
C13_Witness ==
    /\ seatPc = "menu"
    /\ wantSmoking
    /\ Len(passes) = 6
    /\ passes[6] = <<kNonSmokeStartIdx, FALSE>>
    /\ \A k \in kSmokingStartIdx .. kSmokingEndIdx : seats[k] = 1

(***************************************************************************)
(* RatSpec: one object of class Rational                                   *)
(* (Chapter6_Classes_Part_I/excercise_7.cpp).  The initial states are the  *)
(* objects the constructor builds; each action is one call of a member     *)
(* function.  A call is taken only when every int it computes lies in      *)
(* -MaxVal .. MaxVal, the model's int range.                               *)
(***************************************************************************)
MaxArg == 2
MaxVal == 45

ArgInts == (0 - MaxArg) .. MaxArg

\* The (a, b) passed by main to add, sub, mul and div.
MainCallArgs == {<<1, 2>>, <<9, 4>>, <<9, 10>>, <<0, 7>>}

\* The (num, den) main constructs r1 .. r10 from.
MainCtorArgs == {<<2, 4>>, <<1, 0 - 2>>, <<0 - 1, 0 - 2>>, <<0, 5>>, <<1, 2>>,
                 <<3, 4>>, <<2, 3>>, <<3, 5>>, <<5, 0>>}

RatArgs == (ArgInts \X ArgInts) \cup MainCallArgs

CtorArgs == (ArgInts \X ArgInts) \cup MainCtorArgs

InInt(x) == x \in (0 - MaxVal) .. MaxVal

abs(x) == IF x < 0 THEN 0 - x ELSE x

RECURSIVE GCD(_, _)
GCD(a, b) == IF b # 0 THEN GCD(b, a % b) ELSE a

\* Faulty variant: Rule 2 (sign to the numerator) left out.
normaliseKeepsSign(num, den) ==
    LET den1 == IF den = 0 THEN 1 ELSE den
        msg == IF den = 0 THEN "denominator became 0" ELSE ""
    IN  IF num = 0
        THEN [numerator |-> 0, denominator |-> 1, msg |-> msg]
        ELSE LET div_by == GCD(abs(num), abs(den1))
             IN  [numerator |-> num \div div_by,
                  denominator |-> den1 \div div_by,
                  msg |-> msg]

\* normalise() applied to the raw members (num, den): the members it leaves
\* and the message it prints.
normalise(num, den) ==
    LET den1 == IF den = 0 THEN 1 ELSE den
        msg == IF den = 0 THEN "denominator became 0" ELSE ""
    IN  IF num = 0
        THEN [numerator |-> 0, denominator |-> 1, msg |-> msg]
        ELSE LET num2 == IF den1 < 0 THEN 0 - num ELSE num
                 den2 == IF den1 < 0 THEN 0 - den1 ELSE den1
                 div_by == GCD(abs(num2), abs(den2))
             IN  [numerator |-> num2 \div div_by,
                  denominator |-> den2 \div div_by,
                  msg |-> msg]

add(n, d, a, b) == normalise((n * b) + (d * a), d * b)

\* Faulty variant: the numerator of a - b computed with +.
subAdds(n, d, a, b) == normalise((n * b) + (d * a), d * b)

sub(n, d, a, b) == normalise((n * b) - (d * a), d * b)

mul(n, d, a, b) == normalise(n * a, d * b)

\* Faulty variant: the test a == 0 left out.
divUnguarded(n, d, a, b) == normalise(n * b, d * a)

div(n, d, a, b) ==
    IF a = 0
    THEN [numerator |-> n, denominator |-> d, msg |-> "division by zero fraction"]
    ELSE normalise(n * b, d * a)

\* Every int computed by the call lies in the int range.
addInRange(n, d, a, b) ==
    InInt(n * b) /\ InInt(d * a) /\ InInt((n * b) + (d * a)) /\ InInt(d * b)

subInRange(n, d, a, b) ==
    InInt(n * b) /\ InInt(d * a) /\ InInt((n * b) - (d * a)) /\ InInt(d * b)

mulInRange(n, d, a, b) == InInt(n * a) /\ InInt(d * b)

divInRange(n, d, a, b) == a = 0 \/ (InInt(n * b) /\ InInt(d * a))

notRat == <<pokerVars, seatVars, setVars, turtleVars, earnVars, searchVars>>

\* The members become those of record r, the output its message.
Becomes(r, call) ==
    /\ numerator' = r.numerator
    /\ denominator' = r.denominator
    /\ ratMsg' = r.msg
    /\ ratCall' = call
    /\ UNCHANGED notRat

RatInit ==
    /\ PokerIdle /\ SeatIdle /\ SetIdle /\ TurtleIdle /\ EarnIdle /\ SearchIdle
    /\ \E arg \in CtorArgs :
          LET r == normalise(arg[1], arg[2])
          IN  /\ numerator = r.numerator
              /\ denominator = r.denominator
              /\ ratMsg = r.msg
    /\ ratCall = "ctor"

AddCall(a, b) ==
    /\ addInRange(numerator, denominator, a, b)
    /\ Becomes(add(numerator, denominator, a, b), "add")

SubCall(a, b) ==
    /\ subInRange(numerator, denominator, a, b)
    /\ Becomes(sub(numerator, denominator, a, b), "sub")

MulCall(a, b) ==
    /\ mulInRange(numerator, denominator, a, b)
    /\ Becomes(mul(numerator, denominator, a, b), "mul")

DivCall(a, b) ==
    /\ divInRange(numerator, denominator, a, b)
    /\ Becomes(div(numerator, denominator, a, b), "div")

Add == \E arg \in RatArgs : AddCall(arg[1], arg[2])

Sub == \E arg \in RatArgs : SubCall(arg[1], arg[2])

Mul == \E arg \in RatArgs : MulCall(arg[1], arg[2])

Div == \E arg \in RatArgs : DivCall(arg[1], arg[2])

RatNext ==
    \/ Add
    \/ Sub
    \/ Mul
    \/ Div

RatSpec == RatInit /\ [][RatNext]_vars

\* n/d is in canonical form: positive denominator, no common divisor above
\* 1, and zero written 0/1.
Canonical(n, d) ==
    /\ d > 0
    /\ \A k \in 2 .. MaxVal : ~(abs(n) % k = 0 /\ d % k = 0)
    /\ n = 0 => d = 1

\* C14: after construction from any (num, den) and after any sequence of
\* add, sub, mul and div calls within the int range, denominator > 0,
\* gcd(|numerator|, denominator) = 1, and numerator = 0 gives denominator = 1.
C14_RationalInvariants ==
    /\ denominator > 0
    /\ GCD(abs(numerator), denominator) = 1
    /\ \A k \in 2 .. MaxVal : ~(abs(numerator) % k = 0 /\ denominator % k = 0)
    /\ numerator = 0 => denominator = 1

\* C14 witness: a call with b = 0 made the raw denominator 0; normalise
\* forced it to 1 and the object holds a negative whole number.
C14_Witness ==
    /\ ratCall = "add"
    /\ ratMsg = "denominator became 0"
    /\ numerator < 0 - 1
    /\ denominator = 1

\* C15: div(a, b) with a = 0 is rejected for every b: numerator and
\* denominator are after the call what they were before it.
C15_DivByZeroFractionRejected ==
    [][\A b \in ArgInts \cup {7} :
           DivCall(0, b) =>
               /\ numerator' = numerator
               /\ denominator' = denominator
               /\ ratMsg' = "division by zero fraction"]_vars

\* C15 witness: main's r9, 1/2 after div(0, 7).
C15_Witness ==
    /\ ratCall = "div"
    /\ ratMsg = "division by zero fraction"
    /\ numerator = 1 /\ denominator = 2

\* The record r holds the fraction n/d.
Holds(r, n, d) == r.numerator = n /\ r.denominator = d

\* C16: for an object holding n/d and arguments a, b with b # 0 (and a # 0
\* for div), within the int range, the object holds after the call the
\* canonical form of the exact sum, difference, product or quotient: it is
\* canonical and equal to the exact result by cross-multiplication.  The
\* four results of main are among them.
C16_ExactArithmetic ==
    [][/\ \A arg \in RatArgs :
             LET a == arg[1]
                 b == arg[2]
                 n == numerator
                 d == denominator
             IN  b # 0 =>
                   /\ (ratCall' = "add" /\ AddCall(a, b)) =>
                         /\ numerator' * (d * b) = ((n * b) + (d * a)) * denominator'
                         /\ Canonical(numerator', denominator')
                   /\ (ratCall' = "sub" /\ SubCall(a, b)) =>
                         /\ numerator' * (d * b) = ((n * b) - (d * a)) * denominator'
                         /\ Canonical(numerator', denominator')
                   /\ (ratCall' = "mul" /\ MulCall(a, b)) =>
                         /\ numerator' * (d * b) = (n * a) * denominator'
                         /\ Canonical(numerator', denominator')
                   /\ (ratCall' = "div" /\ a # 0 /\ DivCall(a, b)) =>
                         /\ numerator' * (d * a) = (n * b) * denominator'
                         /\ Canonical(numerator', denominator')
       /\ Holds(add(1, 2, 1, 2), 1, 1)
       /\ Holds(sub(3, 4, 1, 2), 1, 4)
       /\ Holds(mul(2, 3, 9, 4), 3, 2)
       /\ Holds(div(3, 5, 9, 10), 2, 3)]_vars

\* C16 witness: the object holds 2/3 after a division that printed nothing,
\* as main's r8 does after (3/5).div(9, 10).
C16_Witness ==
    /\ ratCall = "div"
    /\ ratMsg = ""
    /\ numerator = 2 /\ denominator = 3

(***************************************************************************)
(* SetSpec: one object of class IntegerSet                                 *)
(* (Chapter7_Classes_Part_II/excercise_9.cpp).  The initial states are the *)
(* three sets main constructs; each action is one call of insertElement or *)
(* deleteElement.                                                          *)
(***************************************************************************)
SETMAX == 100

MaxK == 2

SetIdx == 0 .. SETMAX

\* The arguments k tried: the small values up to MaxK, the ends of the
\* range and their neighbours, and the values main passes.
KeyInputs == (0 .. MaxK) \cup {0 - 5, 0 - 1, 42, SETMAX - 1, SETMAX, SETMAX + 1, 200}

\* The constructor calls of main: set1, set2(1,3,5,7,9), set3(2,4,6,8,10).
CtorCalls == {<<0 - 1, 0 - 1, 0 - 1, 0 - 1, 0 - 1>>, <<1, 3, 5, 7, 9>>, <<2, 4, 6, 8, 10>>}

fillZero == [idx \in SetIdx |-> FALSE]

IntegerSet(a, b, c, d, e) ==
    [idx \in SetIdx |->
        \/ (a >= 0 /\ a <= SETMAX /\ idx = a)
        \/ (b >= 0 /\ b <= SETMAX /\ idx = b)
        \/ (c >= 0 /\ c <= SETMAX /\ idx = c)
        \/ (d >= 0 /\ d <= SETMAX /\ idx = d)
        \/ (e >= 0 /\ e <= SETMAX /\ idx = e)
        \/ fillZero[idx]]

\* Faulty variant: 0 taken to be out of range.
insertElementFromOne(s, k) ==
    IF k > 0 /\ k <= SETMAX
    THEN [set |-> [s EXCEPT ![k] = TRUE], ok |-> TRUE]
    ELSE [set |-> s, ok |-> FALSE]

insertElement(s, k) ==
    IF k >= 0 /\ k <= SETMAX
    THEN [set |-> [s EXCEPT ![k] = TRUE], ok |-> TRUE]
    ELSE [set |-> s, ok |-> FALSE]

deleteElement(s, k) ==
    IF k >= 0 /\ k <= SETMAX
    THEN [set |-> [s EXCEPT ![k] = FALSE], ok |-> TRUE]
    ELSE [set |-> s, ok |-> FALSE]

notSet == <<pokerVars, seatVars, ratVars, turtleVars, earnVars, searchVars>>

SetInit ==
    /\ PokerIdle /\ SeatIdle /\ RatIdle /\ TurtleIdle /\ EarnIdle /\ SearchIdle
    /\ \E c \in CtorCalls : set = IntegerSet(c[1], c[2], c[3], c[4], c[5])
    /\ setCall = "ctor"
    /\ setK = 0
    /\ ok = FALSE

InsertElement ==
    /\ \E k \in KeyInputs :
          LET r == insertElement(set, k)
          IN  /\ set' = r.set
              /\ ok' = r.ok
              /\ setK' = k
    /\ setCall' = "insert"
    /\ UNCHANGED notSet

DeleteElement ==
    /\ \E k \in KeyInputs :
          LET r == deleteElement(set, k)
          IN  /\ set' = r.set
              /\ ok' = r.ok
              /\ setK' = k
    /\ setCall' = "delete"
    /\ UNCHANGED notSet

SetNext ==
    \/ InsertElement
    \/ DeleteElement

SetSpec == SetInit /\ [][SetNext]_vars

\* Every integer other than k is a member after the step exactly if it was
\* before; integers outside 0..100 are never members.
OthersKept(k) ==
    /\ DOMAIN set' = SetIdx
    /\ \A j \in SetIdx \ {k} : set'[j] = set[j]

\* C17: a call with k outside 0..100 returns false and changes no
\* membership; a call with k in 0..100 returns true, makes k present
\* (insertElement) or absent (deleteElement) and changes no other membership.
C17_InsertDeleteContract ==
    [][/\ setCall' \in {"insert", "delete"}
       /\ setK' \notin SetIdx => (ok' = FALSE /\ set' = set)
       /\ setK' \in SetIdx =>
             /\ ok' = TRUE
             /\ set'[setK'] = (setCall' = "insert")
             /\ OthersKept(setK')]_vars

\* C17 witness: 100 has just been deleted from main's set2 (1, 3, 5, 7, 9),
\* into which 0 and 42 had been inserted.
C17_Witness ==
    /\ setCall = "delete"
    /\ setK = SETMAX
    /\ ok = TRUE
    /\ set[SETMAX] = FALSE
    /\ set[0] = TRUE /\ set[42] = TRUE /\ set[9] = TRUE

(***************************************************************************)
(* TurtleSpec: the turtle simulator of Chapter4_Arrays/excercise23.cpp.    *)
(* main's loop reads the array commands[]; the model lets the array hold   *)
(* any ints, of any length up to MaxCmdInts: each action is one iteration  *)
(* of the loop, for one value of commands[i] (and, for a move, of the      *)
(* distance behind it).                                                    *)
(***************************************************************************)
kFloorSize == 20
kCmdPenUp == 1
kCmdPenDown == 2
kCmdTurnRight == 3
kCmdTurnLeft == 4
kCmdMove == 5
kCmdPrint == 6
kCmdExit == 9
kPenUp == 0
kPenDown == 1
kDirRight == 0
kDirDown == 1
kDirLeft == 2
kDirUp == 3

MaxCmdInts == 11

FloorIdx == 0 .. (kFloorSize - 1)

\* The distances tried behind a move command: negative, zero, short, the
\* distances of main, and the two around the width of the floor.
Distances == {0 - 3, 0, 1, 5, 12, kFloorSize - 1, kFloorSize}

\* Command codes with no case of their own in processCommand.
UnknownCodes == {0 - 1, 0, 7, 8, 10}

\* The turtle and the floor as one value.
Turtle == [row |-> turtleRow, col |-> turtleCol, pen |-> turtlePen,
           dir |-> turtleDir, floor |-> floor_]

turnRight(t) == [t EXCEPT !.dir = (t.dir + 1) % 4]

turnLeft(t) == [t EXCEPT !.dir = (t.dir + 3) % 4]

nextRowOf(t) ==
    IF t.dir = kDirRight THEN t.row
    ELSE IF t.dir = kDirDown THEN t.row + 1
    ELSE IF t.dir = kDirLeft THEN t.row
    ELSE t.row - 1

nextColOf(t) ==
    IF t.dir = kDirRight THEN t.col + 1
    ELSE IF t.dir = kDirDown THEN t.col
    ELSE IF t.dir = kDirLeft THEN t.col - 1
    ELSE t.col

\* Faulty variant: the boundary test lets the turtle one cell past the far
\* edges (a cell off the floor is not marked).
RECURSIVE moveForwardPastEdge(_, _)
moveForwardPastEdge(t, steps) ==
    IF steps <= 0 THEN t
    ELSE LET nextRow == nextRowOf(t)
             nextCol == nextColOf(t)
         IN  IF nextRow < 0 \/ nextRow > kFloorSize \/ nextCol < 0 \/ nextCol > kFloorSize
             THEN t
             ELSE LET moved == [t EXCEPT !.row = nextRow, !.col = nextCol]
                  IN  moveForwardPastEdge(
                          IF t.pen = kPenDown /\ nextRow \in FloorIdx /\ nextCol \in FloorIdx
                          THEN [moved EXCEPT !.floor[nextRow][nextCol] = 1]
                          ELSE moved,
                          steps - 1)

\* Faulty variant: the pen is not consulted, every cell moved into is marked.
RECURSIVE moveForwardAlwaysMarks(_, _)
moveForwardAlwaysMarks(t, steps) ==
    IF steps <= 0 THEN t
    ELSE LET nextRow == nextRowOf(t)
             nextCol == nextColOf(t)
         IN  IF nextRow < 0 \/ nextRow >= kFloorSize \/ nextCol < 0 \/ nextCol >= kFloorSize
             THEN t
             ELSE moveForwardAlwaysMarks(
                      [t EXCEPT !.row = nextRow, !.col = nextCol,
                                !.floor[nextRow][nextCol] = 1],
                      steps - 1)

\* moveForward: the loop  for (i = 0; i < steps; i++)  with  steps  the
\* iterations still to run.
RECURSIVE moveForward(_, _)
moveForward(t, steps) ==
    IF steps <= 0 THEN t
    ELSE LET nextRow == nextRowOf(t)
             nextCol == nextColOf(t)
         IN  IF nextRow < 0 \/ nextRow >= kFloorSize \/ nextCol < 0 \/ nextCol >= kFloorSize
             THEN t
             ELSE LET moved == [t EXCEPT !.row = nextRow, !.col = nextCol]
                  IN  moveForward(
                          IF t.pen = kPenDown
                          THEN [moved EXCEPT !.floor[nextRow][nextCol] = 1]
                          ELSE moved,
                          steps - 1)

processCommand(t, cmd, moveDistanceIfAny, hasMoveDistance) ==
    IF cmd = kCmdPenUp THEN [t EXCEPT !.pen = kPenUp]
    ELSE IF cmd = kCmdPenDown
         THEN [t EXCEPT !.pen = kPenDown, !.floor[t.row][t.col] = 1]
    ELSE IF cmd = kCmdTurnRight THEN turnRight(t)
    ELSE IF cmd = kCmdTurnLeft THEN turnLeft(t)
    ELSE IF cmd = kCmdMove
         THEN IF hasMoveDistance /\ moveDistanceIfAny > 0
              THEN moveForward(t, moveDistanceIfAny)
              ELSE t
    ELSE t

notTurtle == <<pokerVars, seatVars, ratVars, setVars, earnVars, searchVars>>

TurtleInit ==
    /\ PokerIdle /\ SeatIdle /\ RatIdle /\ SetIdle /\ EarnIdle /\ SearchIdle
    /\ floor_ = [r \in FloorIdx |-> [c \in FloorIdx |-> 0]]
    /\ turtleRow = 0
    /\ turtleCol = 0
    /\ turtlePen = kPenUp
    /\ turtleDir = kDirRight
    /\ cmdIdx = 0
    /\ turtlePc = "run"

\* The loop is at an element of the array.
AtCommand == turtlePc = "run" /\ cmdIdx < MaxCmdInts

\* One iteration: processCommand on the globals, then i moves on by the
\* number of ints the iteration used.
Iteration(cmd, moveDistanceIfAny, hasMoveDistance, used) ==
    LET t == processCommand(Turtle, cmd, moveDistanceIfAny, hasMoveDistance)
    IN  /\ turtleRow' = t.row
        /\ turtleCol' = t.col
        /\ turtlePen' = t.pen
        /\ turtleDir' = t.dir
        /\ floor_' = t.floor
        /\ cmdIdx' = cmdIdx + used
        /\ UNCHANGED notTurtle

PenUpCmd ==
    /\ AtCommand
    /\ Iteration(kCmdPenUp, 0, FALSE, 1)
    /\ UNCHANGED turtlePc

PenDownCmd ==
    /\ AtCommand
    /\ Iteration(kCmdPenDown, 0, FALSE, 1)
    /\ UNCHANGED turtlePc

TurnRightCmd ==
    /\ AtCommand
    /\ Iteration(kCmdTurnRight, 0, FALSE, 1)
    /\ UNCHANGED turtlePc

TurnLeftCmd ==
    /\ AtCommand
    /\ Iteration(kCmdTurnLeft, 0, FALSE, 1)
    /\ UNCHANGED turtlePc

\* A move with the distance n behind it in the array.
MoveBy(n) ==
    /\ AtCommand
    /\ cmdIdx + 1 < MaxCmdInts
    /\ Iteration(kCmdMove, n, TRUE, 2)
    /\ UNCHANGED turtlePc

MoveCmd == \E n \in Distances : MoveBy(n)

\* A move as the last element of the array: no distance, and the loop ends.
MoveWithoutDistance ==
    /\ AtCommand
    /\ Iteration(kCmdMove, 0, FALSE, 1)
    /\ turtlePc' = "end"

PrintCmd ==
    /\ AtCommand
    /\ Iteration(kCmdPrint, 0, FALSE, 1)
    /\ UNCHANGED turtlePc

UnknownCmd ==
    /\ AtCommand
    /\ \E cmd \in UnknownCodes : Iteration(cmd, 0, FALSE, 1)
    /\ UNCHANGED turtlePc

\* commands[i] is kCmdExit: break.
ExitCmd ==
    /\ AtCommand
    /\ turtlePc' = "exit"
    /\ UNCHANGED <<floor_, turtleRow, turtleCol, turtlePen, turtleDir, cmdIdx, notTurtle>>

\* i has reached commandsSize.
EndOfCommands ==
    /\ turtlePc = "run"
    /\ turtlePc' = "end"
    /\ UNCHANGED <<floor_, turtleRow, turtleCol, turtlePen, turtleDir, cmdIdx, notTurtle>>

TurtleNext ==
    \/ PenUpCmd
    \/ PenDownCmd
    \/ TurnRightCmd
    \/ TurnLeftCmd
    \/ MoveCmd
    \/ MoveWithoutDistance
    \/ PrintCmd
    \/ UnknownCmd
    \/ ExitCmd
    \/ EndOfCommands

TurtleSpec == TurtleInit /\ [][TurtleNext]_vars

InGrid(row, col) == row \in FloorIdx /\ col \in FloorIdx

RowStep(dir) == IF dir = kDirDown THEN 1 ELSE IF dir = kDirUp THEN 0 - 1 ELSE 0

ColStep(dir) == IF dir = kDirRight THEN 1 ELSE IF dir = kDirLeft THEN 0 - 1 ELSE 0

\* The number of cells between the turtle and the edge it faces.
Room ==
    IF turtleDir = kDirRight THEN (kFloorSize - 1) - turtleCol
    ELSE IF turtleDir = kDirDown THEN (kFloorSize - 1) - turtleRow
    ELSE IF turtleDir = kDirLeft THEN turtleCol
    ELSE turtleRow

\* The turtle moved into cell (r, c) in this step: the cell lies on the
\* straight line from the old position to the new one, the old position
\* excluded.
Entered(r, c) ==
    LET k == abs(turtleRow' - turtleRow) + abs(turtleCol' - turtleCol)
    IN  IF RowStep(turtleDir) = 0
        THEN r = turtleRow /\ ((c - turtleCol) * ColStep(turtleDir)) \in 1 .. k
        ELSE c = turtleCol /\ ((r - turtleRow) * RowStep(turtleDir)) \in 1 .. k

\* C18: before and after every command the turtle is on the floor, rows and
\* columns 0..19; a move by n advances the turtle n cells in its direction
\* when there is room for n, and otherwise to the last cell before the edge,
\* the remaining steps being dropped (n <= 0 moves nothing).
C18_TurtleStaysOnFloor ==
    [][/\ InGrid(turtleRow, turtleCol)
       /\ InGrid(turtleRow', turtleCol')
       /\ \A n \in Distances :
             (cmdIdx' = cmdIdx + 2 /\ MoveBy(n)) =>
                 LET k == IF n <= 0 THEN 0 ELSE IF n <= Room THEN n ELSE Room
                 IN  /\ turtleRow' = turtleRow + (k * RowStep(turtleDir))
                     /\ turtleCol' = turtleCol + (k * ColStep(turtleDir))
                     /\ turtleDir' = turtleDir]_vars

\* C18 witness: two moves longer than the floor, right and then down, left
\* the turtle in the far corner, facing down.
C18_Witness ==
    /\ turtleRow = kFloorSize - 1
    /\ turtleCol = kFloorSize - 1
    /\ turtleDir = kDirDown
    /\ cmdIdx <= 6

MaxCalls == 2

MaxHundreds == 11

CounterIdx == 0 .. 8

\* The earnings tried: around every multiple of 100 from -100 up to
\* 100 * MaxHundreds.
EarningsInputs ==
    { (100 * q) + r : q \in (0 - 1) .. MaxHundreds, r \in {0, 1, 50, 99} }

\* Integer division of C++: the quotient is truncated toward zero.
CDiv(a, b) ==
    IF (a >= 0) = (b > 0) THEN abs(a) \div abs(b) ELSE 0 - (abs(a) \div abs(b))

\* checkEarningsAgainstCounter: the counter array it leaves.
checkEarningsAgainstCounter(cnt, e) ==
    LET index == CDiv(e - 200, 100)
    IN  IF index < 0 THEN cnt
        ELSE LET index2 == IF index > 8 THEN 8 ELSE index
             IN  [cnt EXCEPT ![index2] = @ + 1]

notEarn == <<pokerVars, seatVars, ratVars, setVars, turtleVars, searchVars>>

EarnInit ==
    /\ PokerIdle /\ SeatIdle /\ RatIdle /\ SetIdle /\ TurtleIdle /\ SearchIdle
    /\ counter = [idx \in CounterIdx |-> 0]
    /\ earnings = 0
    /\ earnCalls = 0

CheckEarnings ==
    /\ earnCalls < MaxCalls
    /\ \E e \in EarningsInputs :
          /\ counter' = checkEarningsAgainstCounter(counter, e)
          /\ earnings' = e
    /\ earnCalls' = earnCalls + 1
    /\ UNCHANGED notEarn

EarnNext == CheckEarnings

EarnSpec == EarnInit /\ [][EarnNext]_vars

\* C20, as claimed: a call with earnings < 200 leaves all nine counters
\* unchanged; with 200 <= earnings <= 999 it increments counter
\* (earnings-200)/100 and no other; with earnings >= 1000 it increments
\* counter 8 and no other.  The code does not do this: for earnings in
\* 101..199 the quotient (earnings-200)/100 truncates to 0, the test
\* index < 0 fails, and counter 0 is incremented.
C20_BucketsAsClaimed ==
    [][earnCalls' = earnCalls + 1 =>
          /\ earnings' < 200 => counter' = counter
          /\ earnings' \in 200 .. 999 =>
                counter' = [counter EXCEPT ![CDiv(earnings' - 200, 100)] = @ + 1]
          /\ earnings' >= 1000 => counter' = [counter EXCEPT ![8] = @ + 1]]_vars

\* C20 witness: one call with earnings 150 has been made and counter 0,
\* the bucket of 200-299, stands at 1.
C20_Witness ==
    /\ earnCalls = 1
    /\ earnings = 150
    /\ counter[0] = 1

(***************************************************************************)
(* SearchSpec: Chapter4_Arrays/recursion_excercise33.cpp.                  *)
(* linearSearch and linearSearchRecursive are pure functions; the          *)
(* specification draws an array and a key, calls linearSearch(arr, n, key) *)
(* and then linearSearchRecursive(arr, 0, n, key), and keeps both results. *)
(* An array is a function on 0 .. n-1, as in the source.                   *)
(***************************************************************************)

\* Bounds: arrays of at most MaxLen elements with values 1 .. MaxElem.
MaxLen == 3
MaxElem == 3

\* main's key and the end it passes to linearSearchRecursive.
mainKey == 9
mainEnd == 9

\* main's array {1,2,3,4,5,6,7,8,9}.
mainArr == [idx \in 0 .. mainEnd - 1 |-> idx + 1]

SearchArrays ==
    UNION {[0 .. n - 1 -> 1 .. MaxElem] : n \in 0 .. MaxLen} \cup {mainArr}

\* Keys: every value an array can hold, one below and one above them, and
\* main's key.
SearchKeys == (0 .. MaxElem + 1) \cup {mainKey}

ArrSize(a) == Cardinality(DOMAIN a)

\* The for loop of linearSearch from index idx on.
RECURSIVE linearSearchLoop(_, _, _, _)
linearSearchLoop(a, arrSize, k, idx) ==
    IF idx < arrSize
    THEN IF a[idx] = k THEN idx + 1
         ELSE linearSearchLoop(a, arrSize, k, idx + 1)
    ELSE 0 - 1

linearSearch(a, arrSize, k) == linearSearchLoop(a, arrSize, k, 0)

RECURSIVE linearSearchRecursive(_, _, _, _)
linearSearchRecursive(a, start, end, k) ==
    IF start = end THEN 0 - 1
    ELSE IF a[start] = k THEN start + 1
    ELSE linearSearchRecursive(a, start + 1, end, k)

notSearch == <<pokerVars, seatVars, ratVars, setVars, turtleVars, earnVars>>

SearchInit ==
    /\ PokerIdle /\ SeatIdle /\ RatIdle /\ SetIdle /\ TurtleIdle /\ EarnIdle
    /\ arr \in SearchArrays
    /\ key \in SearchKeys
    /\ found = 0
    /\ foundRecursive = 0
    /\ searchPc = "iterative"

CallLinearSearch ==
    /\ searchPc = "iterative"
    /\ found' = linearSearch(arr, ArrSize(arr), key)
    /\ searchPc' = "recursive"
    /\ UNCHANGED <<arr, key, foundRecursive>>
    /\ UNCHANGED notSearch

CallLinearSearchRecursive ==
    /\ searchPc = "recursive"
    /\ foundRecursive' = linearSearchRecursive(arr, 0, ArrSize(arr), key)
    /\ searchPc' = "done"
    /\ UNCHANGED <<arr, key, found>>
    /\ UNCHANGED notSearch

SearchNext == CallLinearSearch \/ CallLinearSearchRecursive

SearchSpec == SearchInit /\ [][SearchNext]_vars

KeyOccurs == \E idx \in DOMAIN arr : arr[idx] = key

\* C21, as claimed: once both functions have been called, they have
\* returned the same value; if the key occurs in arr[0..n-1] that value is
\* an index i of the array with arr[i] = key and no earlier element equal
\* to key; if the key does not occur the value is -1.  The code does not
\* do this: on a hit both functions return i + 1, one more than the index
\* of the first occurrence.
C21_ReturnsIndexOfKey ==
    searchPc = "done" =>
        /\ found = foundRecursive
        /\ IF KeyOccurs
           THEN /\ found \in DOMAIN arr
                /\ arr[found] = key
                /\ \A idx \in 0 .. found - 1 : arr[idx] # key
           ELSE found = 0 - 1

\* C21 witness: main's own search, key 9 in {1,...,9}: both functions have
\* returned 9, which is no index of the nine-element array; the key is at
\* index 8.
C21_Witness ==
    /\ searchPc = "done"
    /\ arr = mainArr
    /\ key = mainKey
    /\ arr[8] = key
    /\ found = 9
    /\ foundRecursive = 9

====
